---------------------------- MODULE Spec2Model ----------------------------
(***************************************************************************)
(* A model of the data-loader: the schema-driven SQL builders              *)
(* (buildCreateTableQuery, buildCopyFromS3Query), the schema parser        *)
(* (marshalTableSchema) and the load orchestrator                          *)
(* (DataLoader.LoadDataFileToRedshift, driven by handler.handle).          *)
(*                                                                         *)
(* Go strings whose characters the code inspects (a column's Width, which  *)
(* strconv.Atoi parses; a file key, which strings.Split cuts; the bytes of *)
(* a schema object, which the csv reader splits into fields) are           *)
(* sequences of one-character strings.  Every other Go string (names,      *)
(* data types, generated statements, error messages) is a TLA+ string,     *)
(* built with \o exactly where the code concatenates or formats.           *)
(* A Go error is its message; the nil error is the value nil below.        *)
(***************************************************************************)
EXTENDS Integers, Sequences, FiniteSets, TLC

VARIABLES
    d,            \* the DataLoader's configuration: Env, DataBucket, SchemaBucket
    argTable,     \* builders: the tableName argument
    argSchema,    \* builders: the schema argument ([]dBColumnSchema)
    argTarget,    \* builders: the copyTarget argument
    phase,        \* builders: "input" before the call, "returned" after it
    outQuery,     \* builders: the statement returned
    outErr,       \* builders and parser: the error returned
    argRaw,       \* parser: the rawSchema argument, the bytes of the stream
    outSchema,    \* parser: the []dBColumnSchema returned
    outPanic,     \* parser: whether the call ended in a run-time panic
    run,          \* per invocation of handler.handle: its event, loop and the load in progress
    tables        \* the warehouse: the names of the tables that exist

vars == <<d, argTable, argSchema, argTarget, phase, outQuery, outErr, argRaw, outSchema,
          outPanic, run, tables>>

\* The state of a call of a builder or of the parser alone, and of the loader.
builderVars == <<argTable, argSchema, argTarget, phase, outQuery, outErr, argRaw, outSchema,
                 outPanic>>

parserVars == <<argRaw, outSchema, outPanic>>

loaderVars == <<run, tables>>

---------------------------------------------------------------------------
(* Strings *)

\* The nil error.
nil == "<nil>"

DigitChars == <<"0", "1", "2", "3", "4", "5", "6", "7", "8", "9">>

\* The Go string made of the characters cs[lo..hi] (split in halves, so that a
\* long string does not need a deep evaluation).
RECURSIVE StrRange(_, _, _)
StrRange(cs, lo, hi) ==
    IF lo > hi THEN ""
    ELSE IF lo = hi THEN cs[lo]
    ELSE LET mid == (lo + hi) \div 2
         IN  StrRange(cs, lo, mid) \o StrRange(cs, mid + 1, hi)

ToStr(cs) == StrRange(cs, 1, Len(cs))

\* fmt's %d of a non-negative int.
RECURSIVE Itoa(_)
Itoa(n) ==
    IF n < 10 THEN DigitChars[n + 1]
    ELSE Itoa(n \div 10) \o DigitChars[(n % 10) + 1]


\* strconv.Quote of a string of printable characters other than " and \.
Quote(str) == "\"" \o str \o "\""

\* The *strconv.NumError that Atoi returns for a string it cannot parse.
ErrSyntax(cs) == "strconv.Atoi: parsing " \o Quote(ToStr(cs)) \o ": invalid syntax"

IsDigit(ch) == \E k \in 1..10 : DigitChars[k] = ch

DigitVal(ch) == (CHOOSE k \in 1..10 : DigitChars[k] = ch) - 1

\* Atoi's loop over the bytes after the sign: n = n*10 + int(ch), or -1 when a
\* byte is no decimal digit (the loop returns ErrSyntax there).
RECURSIVE AtoiLoop(_, _, _)
AtoiLoop(s, k, n) ==
    IF k > Len(s) THEN n
    ELSE IF ~IsDigit(s[k]) THEN -1
    ELSE AtoiLoop(s, k + 1, n * 10 + DigitVal(s[k]))

\* strconv.Atoi on a string of fewer than 19 bytes: the fast path for a
\* non-empty string, and ParseInt's ErrSyntax for the empty one.  (A string of
\* 19 bytes or more takes ParseInt's path, which can also end in ErrRange; the
\* widths of this model stay below that length.)
Atoi(cs) ==
    IF Len(cs) = 0 THEN [n |-> 0, err |-> ErrSyntax(cs)]
    ELSE LET signed == cs[1] = "-" \/ cs[1] = "+"
             s      == IF signed THEN Tail(cs) ELSE cs
             n      == AtoiLoop(s, 1, 0)
         IN  IF Len(s) < 1 \/ n = -1 THEN [n |-> 0, err |-> ErrSyntax(cs)]
             ELSE [n |-> IF cs[1] = "-" THEN -n ELSE n, err |-> nil]

---------------------------------------------------------------------------
(* Query builders *)

\* The most columns a table may have (CREATE TABLE's limit).
MaxColumns == 1600

\* The widest TEXT column.
MaxTextWidth == 256

\* The count check with its upper comparison off by one.
InvalidNumOfCol_OffByOne(numOfCol) == numOfCol = 0 \/ numOfCol >= MaxColumns

\* numOfCol == 0 || numOfCol > 1600
InvalidNumOfCol(numOfCol) == numOfCol = 0 \/ numOfCol > MaxColumns

\* The duplicate check looking at the previous column only.
IsDuplicate_Adjacent(dbColumns, i) ==
    i > 1 /\ dbColumns[i - 1].Name = dbColumns[i].Name

\* _, ok := set[colProps.Name]: when the loop reaches column i every earlier
\* column has passed its checks and put its name in the set.
IsDuplicate(dbColumns, i) ==
    \E j \in 1..(i - 1) : dbColumns[j].Name = dbColumns[i].Name

\* The width check with a strict comparison.
TextWidthError_Strict(colProps) ==
    LET a == Atoi(colProps.Width)
    IN  IF a.err # nil THEN a.err
        ELSE IF ~(a.n < MaxTextWidth)
             THEN "passed column width " \o ToStr(colProps.Width)
                      \o " is larger then TEXT field allows"
        ELSE nil

\* The TEXT case's checks of the width: Atoi's error, then the limit.
TextWidthError(colProps) ==
    LET a == Atoi(colProps.Width)
    IN  IF a.err # nil THEN a.err
        ELSE IF ~(a.n <= MaxTextWidth)
             THEN "passed column width " \o ToStr(colProps.Width)
                      \o " is larger then TEXT field allows"
        ELSE nil

\* The switch folding the case of the data type before it compares.
ColumnError_AnyCase(dbColumns, i) ==
    LET colProps == dbColumns[i]
    IN  IF IsDuplicate(dbColumns, i)
        THEN "duplicate column name passed in expectedSchema: " \o colProps.Name
        ELSE CASE colProps.DataType \in {"TEXT", "text"} -> TextWidthError(colProps)
               [] colProps.DataType = "INTEGER" -> nil
               [] colProps.DataType = "BOOLEAN" -> nil
               [] OTHER -> "unknown data type passed " \o colProps.DataType

\* The error with which the loop's iteration for column i returns, or nil when
\* it goes on to the next column: the duplicate check, then the switch.
ColumnError(dbColumns, i) ==
    LET colProps == dbColumns[i]
    IN  IF IsDuplicate(dbColumns, i)
        THEN "duplicate column name passed in expectedSchema: " \o colProps.Name
        ELSE CASE colProps.DataType = "TEXT" -> TextWidthError(colProps)
               [] colProps.DataType = "INTEGER" -> nil
               [] colProps.DataType = "BOOLEAN" -> nil
               [] OTHER -> "unknown data type passed " \o colProps.DataType

\* renderedDataType of a column that passed its checks.
RenderedDataType(colProps) ==
    IF colProps.DataType = "TEXT"
    THEN "VARCHAR(" \o ToStr(colProps.Width) \o ")"
    ELSE colProps.DataType

\* The clause with the separator of a list written ", ".
ColumnClause_CommaSpace(dbColumns, i) ==
    (IF i = 1 THEN "" ELSE ", ")
        \o " " \o dbColumns[i].Name \o " " \o RenderedDataType(dbColumns[i])

\* What iteration i writes to the builder: prefix ("" before the first column,
\* "," after it), then " <Name> <renderedDataType>".
ColumnClause(dbColumns, i) ==
    (IF i = 1 THEN "" ELSE ",")
        \o " " \o dbColumns[i].Name \o " " \o RenderedDataType(dbColumns[i])

\* What iterations lo..hi write, in order.
RECURSIVE ColumnClauses(_, _, _)
ColumnClauses(dbColumns, lo, hi) ==
    IF lo > hi THEN ""
    ELSE IF lo = hi THEN ColumnClause(dbColumns, lo)
    ELSE LET mid == (lo + hi) \div 2
         IN  ColumnClauses(dbColumns, lo, mid) \o ColumnClauses(dbColumns, mid + 1, hi)

\* The loop reporting the last column that fails.
FirstBadColumn_Latest(dbColumns) ==
    LET bad == {i \in 1..Len(dbColumns) : ColumnError(dbColumns, i) # nil}
    IN  IF bad = {} THEN 0 ELSE CHOOSE i \in bad : \A j \in bad : i >= j

\* The first column at which the loop returns an error (0: none).
FirstBadColumn(dbColumns) ==
    LET bad == {i \in 1..Len(dbColumns) : ColumnError(dbColumns, i) # nil}
    IN  IF bad = {} THEN 0 ELSE CHOOSE i \in bad : \A j \in bad : i <= j

\* The builder returning, with a column's error, what it has written so far.
buildCreateTableQuery_PartialOnError(tableName, dbColumns) ==
    LET numOfCol == Len(dbColumns)
    IN  IF InvalidNumOfCol(numOfCol)
        THEN [query |-> "",
              err |-> "invalid number of columns defined in expectedSchema: "
                          \o Itoa(numOfCol)]
        ELSE LET bad == FirstBadColumn(dbColumns)
             IN  IF bad # 0
                 THEN [query |-> "CREATE TABLE " \o tableName \o "("
                                     \o ColumnClauses(dbColumns, 1, bad - 1),
                       err |-> ColumnError(dbColumns, bad)]
                 ELSE [query |-> "CREATE TABLE " \o tableName \o "("
                                     \o ColumnClauses(dbColumns, 1, numOfCol) \o ");",
                       err |-> nil]

\* DataLoader.buildCreateTableQuery: (statement, error).
buildCreateTableQuery(tableName, dbColumns) ==
    LET numOfCol == Len(dbColumns)
    IN  IF InvalidNumOfCol(numOfCol)
        THEN [query |-> "",
              err |-> "invalid number of columns defined in expectedSchema: "
                          \o Itoa(numOfCol)]
        ELSE LET bad == FirstBadColumn(dbColumns)
             IN  IF bad # 0
                 THEN [query |-> "", err |-> ColumnError(dbColumns, bad)]
                 ELSE [query |-> "CREATE TABLE " \o tableName \o "("
                                     \o ColumnClauses(dbColumns, 1, numOfCol) \o ");",
                       err |-> nil]

\* The loop with the separator written before every pair, the first included.
RECURSIVE FixedWidthPairs_LeadingSeparator(_, _, _)
FixedWidthPairs_LeadingSeparator(schema, lo, hi) ==
    IF lo > hi THEN ""
    ELSE IF lo = hi
         THEN ", " \o schema[lo].Name \o ":" \o ToStr(schema[lo].Width)
    ELSE LET mid == (lo + hi) \div 2
         IN  FixedWidthPairs_LeadingSeparator(schema, lo, mid)
                 \o FixedWidthPairs_LeadingSeparator(schema, mid + 1, hi)

\* What the loop of buildCopyFromS3Query writes for columns lo..hi: prefix
\* ("" before the first column, ", " after it), then "<Name>:<Width>".
RECURSIVE FixedWidthPairs(_, _, _)
FixedWidthPairs(schema, lo, hi) ==
    IF lo > hi THEN ""
    ELSE IF lo = hi
         THEN (IF lo = 1 THEN "" ELSE ", ")
                  \o schema[lo].Name \o ":" \o ToStr(schema[lo].Width)
    ELSE LET mid == (lo + hi) \div 2
         IN  FixedWidthPairs(schema, lo, mid) \o FixedWidthPairs(schema, mid + 1, hi)

\* DataLoader.buildCopyFromS3Query.
buildCopyFromS3Query(dl, schema, tableName, copyTarget) ==
    "COPY " \o tableName \o " FROM 's3://" \o dl.DataBucket \o "/" \o copyTarget
        \o "' IAM_ROLE 'arn:aws:iam::" \o "653026974230" \o ":role/"
        \o ("data-loader-redshift-copy-" \o dl.Env \o "-us-west-2")
        \o "' FIXEDWIDTH '"
        \o FixedWidthPairs(schema, 1, Len(schema))
        \o "';"

---------------------------------------------------------------------------
(* The inputs of the builders *)

\* The longest schema of the enumerated family.
MaxLen == 3

\* The longest Width string of the enumerated family.
MaxWidthLen == 3

SeqsUpTo(S, n) == UNION {[1..k -> S] : k \in 0..n}

Column(name, width, dataType) == [Name |-> name, Width |-> width, DataType |-> dataType]

\* Column names: two that differ in letter case only, and a third.
Names == {"a", "A", "b"}

\* Width and DataType together: a legal TEXT column, one that is too wide, one
\* whose width is no number, an INTEGER whose width is no number, an unknown type.
Shapes ==
    { <<(<<"4">>), "TEXT">>, <<(<<"2", "5", "7">>), "TEXT">>, <<(<<"x">>), "TEXT">>,
      <<(<<"x">>), "INTEGER">>, <<(<<"4">>), "BAD_TYPE">> }

Columns == {Column(n, sh[1], sh[2]) : n \in Names, sh \in Shapes}

\* Every schema of at most MaxLen of these columns.
SmallSchemas == SeqsUpTo(Columns, MaxLen)

WidthChars == {"0", "2", "5", "6", "7", "-", "+", "x"}

DataTypes == {"TEXT", "INTEGER", "BOOLEAN", "BAD_TYPE", "text", ""}

\* Every one-column schema whose Width is a string of at most MaxWidthLen of
\* WidthChars, of each data type.
WidthSchemas ==
    { <<Column("a", w, t)>> : w \in SeqsUpTo(WidthChars, MaxWidthLen), t \in DataTypes }

\* buildHugeSchema of the tests, for any length: n INTEGER columns named "test".
buildHugeSchema(n) == [i \in 1..n |-> Column("test", <<"1">>, "INTEGER")]

\* n columns with the distinct names c1, c2, ..., the k-th of type TEXT when k
\* is odd and BOOLEAN when even.
buildDistinctSchema(n) ==
    [i \in 1..n |-> Column("c" \o Itoa(i), <<"8">>, IF i % 2 = 1 THEN "TEXT" ELSE "BOOLEAN")]

\* The happy-path schema of the tests.
HappyPathSchema ==
    << Column("testCol1", <<"4">>, "TEXT"), Column("testCol2", <<"4", "2">>, "TEXT"),
       Column("testCol3", <<"8">>, "BOOLEAN"), Column("testCol4", <<"4">>, "INTEGER") >>

\* Schemas at the column limit and one past it.
LimitSchemas ==
    { buildHugeSchema(MaxColumns), buildHugeSchema(MaxColumns + 1),
      buildDistinctSchema(MaxColumns), buildDistinctSchema(MaxColumns + 1) }

\* The DataLoader of the tests, and one as main() builds it.
TestConfig == [Env |-> "", DataBucket |-> "testDB", SchemaBucket |-> ""]

\* A DataLoader as main() builds it: no field empty.
DevConfig == [Env |-> "dev", DataBucket |-> "data", SchemaBucket |-> "schemas"]

Configs == {TestConfig, DevConfig}

TableNames == {"testTable", "t"}

---------------------------------------------------------------------------
(* buildCreateTableQuery as a program: one call on inputs drawn at Init *)

InitCreate ==
    /\ d = TestConfig
    /\ argTable \in TableNames
    /\ argSchema \in SmallSchemas \cup WidthSchemas \cup LimitSchemas \cup {HappyPathSchema}
    /\ argTarget = ""
    /\ phase = "input"
    /\ outQuery = ""
    /\ outErr = nil
    /\ argRaw = <<>>
    /\ outSchema = <<>>
    /\ outPanic = FALSE
    /\ run = <<>>
    /\ tables = {}

CallBuildCreateTableQuery ==
    /\ phase = "input"
    /\ LET r == buildCreateTableQuery(argTable, argSchema)
       IN  /\ outQuery' = r.query
           /\ outErr' = r.err
    /\ phase' = "returned"
    /\ UNCHANGED <<d, argTable, argSchema, argTarget, parserVars, loaderVars>>

NextCreate == CallBuildCreateTableQuery

SpecCreate == InitCreate /\ [][NextCreate]_vars

---------------------------------------------------------------------------
(* buildCopyFromS3Query as a program: one call on inputs drawn at Init *)

\* Table name and copy target: those of the tests, and a table name with an
\* upper-case letter with a target that holds a '/' and a '_'.
CopyArguments == { <<"testtable", "testtarget">>, <<"Tbl", "in/Tbl_2015-06-28.txt">> }

InitCopy ==
    /\ d \in Configs
    /\ \E a \in CopyArguments : argTable = a[1] /\ argTarget = a[2]
    /\ argSchema \in SmallSchemas \cup LimitSchemas \cup {HappyPathSchema}
    /\ phase = "input"
    /\ outQuery = ""
    /\ outErr = nil
    /\ argRaw = <<>>
    /\ outSchema = <<>>
    /\ outPanic = FALSE
    /\ run = <<>>
    /\ tables = {}

CallBuildCopyFromS3Query ==
    /\ phase = "input"
    /\ outQuery' = buildCopyFromS3Query(d, argSchema, argTable, argTarget)
    /\ phase' = "returned"
    /\ UNCHANGED <<d, argTable, argSchema, argTarget, outErr, parserVars, loaderVars>>

NextCopy == CallBuildCopyFromS3Query

SpecCopy == InitCopy /\ [][NextCopy]_vars

---------------------------------------------------------------------------
(* The schema parser *)

\* The stream is the sequence of its bytes, each a one-character string; it
\* holds no carriage return.  The reader is encoding/csv's with the settings of
\* csv.NewReader: Comma ',', no Comment, FieldsPerRecord 0, LazyQuotes and
\* TrimLeadingSpace off.

ErrBareQuote == "bare \" in non-quoted-field"

ErrQuote == "extraneous or missing \" in quoted-field"

ErrFieldCount == "wrong number of fields"

\* (*csv.ParseError).Error().  The column, which is counted differently from one
\* version of the library to another, is left out of the message.
ParseError(startLine, line, err) ==
    IF err = ErrFieldCount THEN "record on line " \o Itoa(line) \o ": " \o err
    ELSE IF startLine # line
    THEN "record on line " \o Itoa(startLine) \o "; parse error on line " \o Itoa(line)
             \o ": " \o err
    ELSE "parse error on line " \o Itoa(line) \o ": " \o err

\* bytes.IndexByte on text[lo..hi]: the first index of ch, or 0 when there is none.
IndexByte(text, ch, lo, hi) ==
    LET at == {k \in lo..hi : text[k] = ch}
    IN  IF at = {} THEN 0 ELSE CHOOSE k \in at : \A j \in at : k <= j

\* readLine from position p on: the index of the last byte of the line, which is
\* its '\n' or, for a last line without one, the last byte of the stream.
LineLast(text, p) ==
    LET nl == IndexByte(text, "\n", p, Len(text))
    IN  IF nl = 0 THEN Len(text) ELSE nl

\* What readRecord answers: the fields, the error, where the next line starts
\* and how many lines have been read.
Record(fields, err, next, numLine, recLine) ==
    [eof |-> FALSE, fields |-> fields, err |-> err, next |-> next, numLine |-> numLine,
     recLine |-> recLine]

\* What the inner loop of readRecord on a quoted field answers: the field, the
\* error, whether a comma follows, the rest of the line text[p..e] and how many
\* lines have been read.
Quoted(field, err, more, p, e, numLine) ==
    [field |-> field, err |-> err, more |-> more, p |-> p, e |-> e, numLine |-> numLine]

\* readRecord's inner loop on a quoted field.  The rest of the line, after the
\* opening quote, is text[p..e] (empty when p > e); the bytes of the field so far
\* are buf; a field goes on over the end of a line.
RECURSIVE quotedField(_, _, _, _, _)
quotedField(text, p, e, numLine, buf) ==
    LET i == IndexByte(text, "\"", p, e)
    IN  IF i > 0
        THEN LET got == buf \o (IF p > i - 1 THEN <<>> ELSE SubSeq(text, p, i - 1))
                 q   == i + 1
             IN  IF q <= e /\ text[q] = "\""
                 THEN quotedField(text, q + 1, e, numLine, Append(got, "\""))
                 ELSE IF q <= e /\ text[q] = ","
                 THEN Quoted(got, nil, TRUE, q + 1, e, numLine)
                 ELSE IF q > e \/ (q = e /\ text[q] = "\n")
                 THEN Quoted(got, nil, FALSE, q, e, numLine)
                 ELSE Quoted(<<>>, ErrQuote, FALSE, q, e, numLine)
        ELSE IF p <= e
        THEN quotedField(text, e + 1, IF e + 1 > Len(text) THEN Len(text) ELSE LineLast(text, e + 1),
                         numLine + 1, buf \o SubSeq(text, p, e))
        ELSE Quoted(<<>>, ErrQuote, FALSE, p, e, numLine)

\* readRecord's parseField loop.  The rest of the line is text[p..e] (empty when
\* p > e); numLine lines have been read and the record began on line recLine.
RECURSIVE parseField(_, _, _, _, _, _)

\* parseField after the quoted field q: its error, the next field when a comma
\* follows, or the end of the record.
afterQuoted(text, q, recLine, fields) ==
    IF q.err # nil
    THEN Record(<<>>, ParseError(recLine, q.numLine, q.err), q.e + 1, q.numLine, recLine)
    ELSE IF q.more
    THEN parseField(text, q.p, q.e, q.numLine, recLine, Append(fields, q.field))
    ELSE Record(Append(fields, q.field), nil, q.e + 1, q.numLine, recLine)

parseField(text, p, e, numLine, recLine, fields) ==
    IF p > e \/ text[p] # "\""
    THEN LET i     == IndexByte(text, ",", p, e)
             last  == IF i > 0 THEN i - 1
                      ELSE IF p <= e /\ text[e] = "\n" THEN e - 1 ELSE e
             field == IF p > last THEN <<>> ELSE SubSeq(text, p, last)
         IN  IF IndexByte(text, "\"", p, last) > 0
             THEN Record(<<>>, ParseError(recLine, numLine, ErrBareQuote), e + 1, numLine, recLine)
             ELSE IF i > 0
             THEN parseField(text, i + 1, e, numLine, recLine, Append(fields, field))
             ELSE Record(Append(fields, field), nil, e + 1, numLine, recLine)
    ELSE afterQuoted(text, quotedField(text, p + 1, e, numLine, <<>>), recLine, fields)

\* readRecord: empty lines are skipped; io.EOF at the end of the stream.
RECURSIVE readRecord(_, _, _)
readRecord(text, pos, numLine) ==
    IF pos > Len(text) THEN [eof |-> TRUE]
    ELSE IF text[pos] = "\n" THEN readRecord(text, pos + 1, numLine + 1)
    ELSE parseField(text, pos, LineLast(text, pos), numLine + 1, numLine + 1, <<>>)

\* ReadAll's loop with readRecord's check of the number of fields: the first
\* record sets FieldsPerRecord, and a later record with another number of
\* fields is ErrFieldCount.  ReadAll returns no records with an error.
RECURSIVE readAll(_, _, _, _, _)

\* ReadAll after readRecord answered r.
afterRecord(text, r, fieldsPerRecord, records) ==
    IF r.eof THEN [lines |-> records, err |-> nil]
    ELSE IF r.err # nil THEN [lines |-> <<>>, err |-> r.err]
    ELSE IF fieldsPerRecord > 0 /\ Len(r.fields) # fieldsPerRecord
    THEN [lines |-> <<>>, err |-> ParseError(r.recLine, r.recLine, ErrFieldCount)]
    ELSE readAll(text, r.next, r.numLine, Len(r.fields), Append(records, r.fields))

readAll(text, pos, numLine, fieldsPerRecord, records) ==
    afterRecord(text, readRecord(text, pos, numLine), fieldsPerRecord, records)

\* csv.NewReader(rawSchema).ReadAll()
csvReadAll(rawSchema) == readAll(rawSchema, 1, 0, 0, <<>>)

\* The loop with the first line taken as a column too.
linesToColumns_KeepHeader(r) ==
    IF r.err # nil THEN [dbColumns |-> <<>>, err |-> r.err, panic |-> FALSE]
    ELSE IF \E i \in 1..Len(r.lines) : Len(r.lines[i]) < 3
         THEN [dbColumns |-> <<>>, err |-> nil, panic |-> TRUE]
    ELSE [dbColumns |-> [i \in 1..Len(r.lines) |->
                            Column(ToStr(r.lines[i][1]), r.lines[i][2], ToStr(r.lines[i][3]))],
          err |-> nil, panic |-> FALSE]

\* marshalTableSchema after ReadAll answered r: its error, or the loop over the
\* lines, which skips the first and takes line[0], line[1], line[2] of every
\* other; a line after the first with fewer than three fields is a run-time
\* panic (index out of range).
linesToColumns(r) ==
    IF r.err # nil THEN [dbColumns |-> <<>>, err |-> r.err, panic |-> FALSE]
    ELSE IF \E i \in 2..Len(r.lines) : Len(r.lines[i]) < 3
         THEN [dbColumns |-> <<>>, err |-> nil, panic |-> TRUE]
    ELSE IF Len(r.lines) <= 1 THEN [dbColumns |-> <<>>, err |-> nil, panic |-> FALSE]
    ELSE [dbColumns |-> [i \in 1..(Len(r.lines) - 1) |->
                            Column(ToStr(r.lines[i + 1][1]), r.lines[i + 1][2],
                                   ToStr(r.lines[i + 1][3]))],
          err |-> nil, panic |-> FALSE]

\* marshalTableSchema: (dbColumns, err), or a run-time panic.
marshalTableSchema(rawSchema) == linesToColumns(csvReadAll(rawSchema))

---------------------------------------------------------------------------
(* marshalTableSchema as a program: one call on a stream drawn at Init *)

\* The most bytes of a stream of the enumerated family.
MaxBodyLen == 5

\* The most rows after the first of a table written out as a stream.
MaxRows == 2

\* Every stream of at most MaxBodyLen of these bytes.
ByteStreams == SeqsUpTo({"a", ",", "\"", "\n"}, MaxBodyLen)

\* Rows, as their fields: a header; two plain rows; a row whose fields hold a
\* comma and a quote, nothing, and a line break; a row of two fields and one of
\* four.
HeaderRow == << <<"n">>, <<"w">>, <<"t">> >>

Rows ==
    { HeaderRow,
      << <<"a">>, <<"4">>, <<"T">> >>,
      << <<"b">>, <<"x">>, <<"B">> >>,
      << <<"a", ",", "\"">>, <<>>, <<"\n">> >>,
      << <<"a">>, <<"4">> >>,
      << <<"a">>, <<"4">>, <<"T">>, <<"z">> >> }

\* Tables: a first row and at most MaxRows rows after it.
Tables == {<<h>> \o rs : h \in Rows, rs \in SeqsUpTo(Rows, MaxRows)}

\* How a table is written out: every field quoted or only those that need it,
\* the last line ended or not, an empty line first or not.
Styles == [quoteAll : BOOLEAN, finalNL : BOOLEAN, blankFirst : BOOLEAN]

\* A field written out: between quotes, each quote of it doubled, when it holds
\* a comma, a quote or a line break (or when every field is quoted).
RECURSIVE DoubleQuotes(_)
DoubleQuotes(f) ==
    IF Len(f) = 0 THEN <<>>
    ELSE (IF Head(f) = "\"" THEN <<"\"", "\"">> ELSE <<Head(f)>>) \o DoubleQuotes(Tail(f))

WriteField(f, quoteAll) ==
    IF quoteAll \/ \E k \in 1..Len(f) : f[k] \in {",", "\"", "\n"}
    THEN <<"\"">> \o DoubleQuotes(f) \o <<"\"">>
    ELSE f

\* A row written out: its fields with commas between, without the line break.
RECURSIVE WriteRow(_, _)
WriteRow(row, quoteAll) ==
    IF Len(row) = 1 THEN WriteField(row[1], quoteAll)
    ELSE WriteField(Head(row), quoteAll) \o <<",">> \o WriteRow(Tail(row), quoteAll)

\* A table written out as a stream.
RECURSIVE WriteRows(_, _)
WriteRows(table, style) ==
    IF Len(table) = 1
    THEN WriteRow(table[1], style.quoteAll) \o (IF style.finalNL THEN <<"\n">> ELSE <<>>)
    ELSE WriteRow(Head(table), style.quoteAll) \o <<"\n">> \o WriteRows(Tail(table), style)

WriteTable(table, style) ==
    (IF style.blankFirst THEN <<"\n">> ELSE <<>>) \o WriteRows(table, style)

\* Each table with each stream it is written out as.
WrittenTables == {[table |-> t, stream |-> WriteTable(t, s)] : t \in Tables, s \in Styles}

\* The rawSchema of the tests: an empty line, the header with a quoted field,
\* three rows.
HappyPathBody ==
    <<"\n">> \o
    <<"\"", "c", "o", "l", "u", "m", "n", " ", "n", "a", "m", "e", "\"", ",",
      "w", "i", "d", "t", "h", ",", "d", "a", "t", "a", "t", "y", "p", "e", "\n">> \o
    <<"n", "a", "m", "e", ",", "1", "0", ",", "T", "E", "X", "T", "\n">> \o
    <<"v", "a", "l", "i", "d", ",", "1", ",", "B", "O", "O", "L", "E", "A", "N", "\n">> \o
    <<"c", "o", "u", "n", "t", ",", "3", ",", "I", "N", "T", "E", "G", "E", "R", "\n">>

\* expectedSchema of the tests.
HappyPathColumns ==
    << Column("name", <<"1", "0">>, "TEXT"), Column("valid", <<"1">>, "BOOLEAN"),
       Column("count", <<"3">>, "INTEGER") >>

InitMarshal ==
    /\ d = TestConfig
    /\ argTable = ""
    /\ argSchema = <<>>
    /\ argTarget = ""
    /\ phase = "input"
    /\ outQuery = ""
    /\ outErr = nil
    /\ argRaw \in ByteStreams \cup {w.stream : w \in WrittenTables} \cup {HappyPathBody}
    /\ outSchema = <<>>
    /\ outPanic = FALSE
    /\ run = <<>>
    /\ tables = {}

\* A call of marshalTableSchema: it returns, or the run-time panics.
CallMarshalTableSchema ==
    /\ phase = "input"
    /\ \E m \in {marshalTableSchema(argRaw)} :
           /\ outSchema' = m.dbColumns
           /\ outErr' = m.err
           /\ outPanic' = m.panic
           /\ phase' = IF m.panic THEN "panicked" ELSE "returned"
    /\ UNCHANGED <<d, argTable, argSchema, argTarget, outQuery, argRaw, loaderVars>>

NextMarshal == CallMarshalTableSchema

SpecMarshal == InitMarshal /\ [][NextMarshal]_vars

---------------------------------------------------------------------------
(* The load orchestrator and the handler that drives it *)

\* The most records of an event.
MaxRecords == 2

\* The most lines of a schema body.
MaxLines == 3

\* File keys: one of table t, with two '_', and one of table u, with none.
FileKeys == { <<"t", "_", "1", "_", "x">>, <<"u">> }

Events == SeqsUpTo(FileKeys, MaxRecords)

\* The lines of schema bodies: the header, a TEXT column (twice in a body, a
\* duplicate), and a line of two fields.
CsvLines ==
    { <<"c", "o", "l", ",", "w", "i", "d", "t", "h", ",", "d", "a", "t", "a", "t", "y", "p", "e", "\n">>,
      <<"a", ",", "4", ",", "T", "E", "X", "T", "\n">>,
      <<"a", ",", "4", "\n">> }

\* The bytes of the lines ls one after another.
RECURSIVE Concat(_)
Concat(ls) == IF Len(ls) = 0 THEN <<>> ELSE Head(ls) \o Concat(Tail(ls))

Bodies == {Concat(ls) : ls \in SeqsUpTo(CsvLines, MaxLines)}

\* The errors of the collaborators.
S3Errors == {"NoSuchKey: The specified key does not exist."}

DBErrors == {"driver: bad connection"}

AlreadyExists(tableName) == "pq: relation \"" \o tableName \o "\" already exists"

CopyErrors == {"pq: Load into table failed."}

PanicIndex == "panic: runtime error: index out of range"

\* The part of the file name before its last "_".
SplitFirst_AtLastSeparator(fileName) ==
    LET seps == {k \in 1..Len(fileName) : fileName[k] = "_"}
    IN  IF seps = {} THEN fileName
        ELSE SubSeq(fileName, 1, (CHOOSE k \in seps : \A j \in seps : k >= j) - 1)

\* strings.Split(fileName, "_")[0]
SplitFirst(fileName) ==
    LET seps == {k \in 1..Len(fileName) : fileName[k] = "_"}
    IN  IF seps = {} THEN fileName
        ELSE SubSeq(fileName, 1, (CHOOSE k \in seps : \A j \in seps : k <= j) - 1)

\* A step of a load as the collaborators and the log see it.
Step(step, bucket, arg, err) == [step |-> step, bucket |-> bucket, arg |-> arg, err |-> err]

\* A call of handle on event ev, before its loop.  loads is the history of the
\* calls of LoadDataFileToRedshift that have returned: the file name each was
\* given and whether it returned an error.
InitRun(ev) ==
    [ event |-> ev, next |-> 0, err |-> nil, response |-> "none", pc |-> "loop",
      fileName |-> <<>>, targetName |-> <<>>, rawSchema |-> <<>>, schema |-> <<>>,
      redShiftTableExists |-> FALSE, steps |-> <<>>, loads |-> <<>> ]

Init ==
    /\ d = DevConfig
    /\ argTable = ""
    /\ argSchema = <<>>
    /\ argTarget = ""
    /\ phase = "input"
    /\ outQuery = ""
    /\ outErr = nil
    /\ argRaw = <<>>
    /\ outSchema = <<>>
    /\ outPanic = FALSE
    /\ \E ev \in Events : run = [i \in {1} |-> InitRun(ev)]
    /\ tables \in {{}, {"t"}}

\* The load wrapping the error it returns.
LoadReturns_Wrapped(r, err) ==
    [r EXCEPT !.pc = "loop", !.next = @ + 1,
              !.err = IF err = nil THEN nil ELSE "load failed: " \o err,
              !.loads = Append(@, [fileName |-> r.fileName, failed |-> err # nil])]

\* The loop keeping the first error it was returned.
LoadReturns_FirstErrorKept(r, err) ==
    [r EXCEPT !.pc = "loop", !.next = @ + 1,
              !.err = IF r.err # nil THEN r.err ELSE err,
              !.loads = Append(@, [fileName |-> r.fileName, failed |-> err # nil])]

\* LoadDataFileToRedshift returns err to handle, whose loop assigns it and goes
\* on to the next record.
LoadReturns(r, err) ==
    [r EXCEPT !.pc = "loop", !.err = err, !.next = @ + 1,
              !.loads = Append(@, [fileName |-> r.fileName, failed |-> err # nil])]

\* handle's loop takes the next record and calls LoadDataFileToRedshift, which
\* derives the target name.
HandleRecord(i) ==
    LET r == run[i]
    IN  /\ r.pc = "loop"
        /\ r.next < Len(r.event)
        /\ run' = [run EXCEPT ![i] =
                      [r EXCEPT !.pc = "fetch",
                                !.fileName = r.event[r.next + 1],
                                !.targetName = SplitFirst(r.event[r.next + 1]),
                                !.rawSchema = <<>>, !.schema = <<>>,
                                !.redShiftTableExists = FALSE, !.steps = <<>>]]
        /\ UNCHANGED <<d, builderVars, tables>>

\* The load r has been answered with the body of its schema object.
Fetched(r) == Len(r.steps) > 0 /\ r.steps[1].step = "fetch" /\ r.steps[1].err = nil

\* The bodies GetObject can answer invocation i with: any body, but the one
\* another invocation's load of the same table was answered with when there is
\* one (the schema object is not replaced while loads of its table are under way).
ObjectBodies(i) ==
    LET same == {j \in DOMAIN run \ {i} :
                    run[j].targetName = run[i].targetName /\ Fetched(run[j])}
    IN  IF same = {} THEN Bodies ELSE {run[j].rawSchema : j \in same}

\* fetchTableSchema: GetObject of <targetName>.csv in the schema bucket, which
\* fails or answers with a body.
FetchTableSchema(i) ==
    LET r == run[i]
        key == ToStr(r.targetName) \o ".csv"
    IN  /\ r.pc = "fetch"
        /\ \/ \E e \in S3Errors :
                 run' = [run EXCEPT ![i] =
                            LoadReturns([r EXCEPT !.steps =
                                            Append(@, Step("fetch", d.SchemaBucket, key, e))], e)]
           \/ \E body \in ObjectBodies(i) :
                 run' = [run EXCEPT ![i] =
                            [r EXCEPT !.pc = "parse", !.rawSchema = body,
                                      !.steps = Append(@, Step("fetch", d.SchemaBucket, key, nil))]]
        /\ UNCHANGED <<d, builderVars, tables>>

\* marshalTableSchema on the body fetched.
MarshalTableSchema(i) ==
    LET r == run[i]
    IN  /\ r.pc = "parse"
        /\ \E m \in {marshalTableSchema(r.rawSchema)} :
              run' = [run EXCEPT ![i] =
                         IF m.panic
                         THEN [r EXCEPT !.pc = "panicked",
                                        !.steps = Append(@, Step("parse", "", "", PanicIndex))]
                         ELSE IF m.err # nil
                         THEN LoadReturns([r EXCEPT !.steps =
                                              Append(@, Step("parse", "", "", m.err))], m.err)
                         ELSE [r EXCEPT !.pc = "exists", !.schema = m.dbColumns,
                                        !.steps = Append(@, Step("parse", "", "", nil))]]
        /\ UNCHANGED <<d, builderVars, tables>>

\* The branch taken whatever the check answered.
AfterExistenceCheck_AlwaysCreate(redShiftTableExists) == "create"

\* if !redShiftTableExists { createTable } and then the copy.
AfterExistenceCheck(redShiftTableExists) ==
    IF ~redShiftTableExists THEN "create" ELSE "copy"

\* checkIfRedShiftTableExists, given what QueryContext and rows.Next answer.
checkIfRedShiftTableExists(queryErr, hasRow) ==
    IF queryErr # nil THEN [exists |-> FALSE, err |-> queryErr]
    ELSE IF ~hasRow THEN [exists |-> FALSE, err |-> nil]
    ELSE [exists |-> TRUE, err |-> nil]

\* The existence query: it fails, or answers; rows.Next() is true only for a
\* table the catalog has, and false for a table it has not or when reading the
\* row fails (rows.Err() is not looked at).
CheckIfRedShiftTableExists(i) ==
    LET r == run[i]
        tableName == ToStr(r.targetName)
    IN  /\ r.pc = "exists"
        /\ \E queryErr \in DBErrors \cup {nil}, hasRow \in BOOLEAN :
              /\ hasRow => tableName \in tables
              /\ (queryErr # nil) => ~hasRow
              /\ LET c  == checkIfRedShiftTableExists(queryErr, hasRow)
                     r1 == [r EXCEPT !.steps = Append(@, Step("exists", "", tableName, queryErr)),
                                     !.redShiftTableExists = c.exists]
                 IN  run' = [run EXCEPT ![i] =
                                IF c.err # nil THEN LoadReturns(r1, c.err)
                                ELSE [r1 EXCEPT !.pc = AfterExistenceCheck(c.exists)]]
        /\ UNCHANGED <<d, builderVars, tables>>

\* createTable executing the statement without looking at the builder's error.
createTable_BuildErrorIgnored(tableName, schema, execErr) ==
    LET b == buildCreateTableQuery(tableName, schema)
    IN  [executed |-> TRUE, query |-> b.query, err |-> execErr]

\* createTable returning nil whatever ExecContext answers.
createTable_ExecErrorDropped(tableName, schema, execErr) ==
    LET b == buildCreateTableQuery(tableName, schema)
    IN  IF b.err # nil THEN [executed |-> FALSE, query |-> b.query, err |-> b.err]
        ELSE [executed |-> TRUE, query |-> b.query, err |-> nil]

\* createTable, given what ExecContext answers when the statement is executed:
\* whether it was executed, and the error returned.
createTable(tableName, schema, execErr) ==
    LET b == buildCreateTableQuery(tableName, schema)
    IN  IF b.err # nil THEN [executed |-> FALSE, query |-> b.query, err |-> b.err]
        ELSE [executed |-> TRUE, query |-> b.query, err |-> execErr]

\* createTable: the statement is built and, if that succeeds, executed; the
\* warehouse rejects it for a table that exists, and may fail otherwise.
CreateTable(i) ==
    LET r == run[i]
        tableName == ToStr(r.targetName)
    IN  /\ r.pc = "create"
        /\ \E execErr \in (IF tableName \in tables THEN {AlreadyExists(tableName)}
                                                   ELSE DBErrors \cup {nil}) :
              LET c  == createTable(tableName, r.schema, execErr)
                  b  == Step("build", "", c.query, IF c.executed THEN nil ELSE c.err)
                  r1 == [r EXCEPT !.steps =
                            IF c.executed
                            THEN Append(Append(@, b), Step("create", "", c.query, execErr))
                            ELSE Append(@, b)]
              IN  /\ run' = [run EXCEPT ![i] =
                                IF c.err # nil THEN LoadReturns(r1, c.err)
                                ELSE [r1 EXCEPT !.pc = "copy"]]
                  /\ tables' = IF c.executed /\ execErr = nil
                               THEN tables \cup {tableName} ELSE tables
        /\ UNCHANGED <<d, builderVars>>

\* executeRedShiftCopyCommand: the COPY statement is built and executed, and
\* ExecContext's error (or nil) is returned.
ExecuteRedShiftCopyCommand(i) ==
    LET r == run[i]
        tableName == ToStr(r.targetName)
        query == buildCopyFromS3Query(d, r.schema, tableName, ToStr(r.fileName))
    IN  /\ r.pc = "copy"
        /\ \E execErr \in CopyErrors \cup DBErrors \cup {nil} :
              run' = [run EXCEPT ![i] =
                         LoadReturns([r EXCEPT !.steps =
                                         Append(@, Step("copy", d.DataBucket, query, execErr))],
                                     execErr)]
        /\ UNCHANGED <<d, builderVars, tables>>

\* handle after its loop: the error of the last assignment, or Success.
HandleReturn(i) ==
    LET r == run[i]
    IN  /\ r.pc = "loop"
        /\ r.next = Len(r.event)
        /\ run' = [run EXCEPT ![i] =
                      [r EXCEPT !.pc = "done",
                                !.response = IF r.err # nil THEN "error" ELSE "Success"]]
        /\ UNCHANGED <<d, builderVars, tables>>

Next ==
    \/ \E i \in DOMAIN run : HandleRecord(i)
    \/ \E i \in DOMAIN run : FetchTableSchema(i)
    \/ \E i \in DOMAIN run : MarshalTableSchema(i)
    \/ \E i \in DOMAIN run : CheckIfRedShiftTableExists(i)
    \/ \E i \in DOMAIN run : CreateTable(i)
    \/ \E i \in DOMAIN run : ExecuteRedShiftCopyCommand(i)
    \/ \E i \in DOMAIN run : HandleReturn(i)

Spec == Init /\ [][Next]_vars

---------------------------------------------------------------------------
(* Two invocations of the handler at once, each with the same event of one *)
(* record, on a warehouse that has no table yet                            *)

InitRace ==
    /\ d = DevConfig
    /\ argTable = ""
    /\ argSchema = <<>>
    /\ argTarget = ""
    /\ phase = "input"
    /\ outQuery = ""
    /\ outErr = nil
    /\ argRaw = <<>>
    /\ outSchema = <<>>
    /\ outPanic = FALSE
    /\ \E ev \in {e \in Events : Len(e) = 1} : run = [i \in {1, 2} |-> InitRun(ev)]
    /\ tables = {}

\* The steps of the two invocations interleave: each step of Next is a step of
\* one of them, and the core holds no lock between its steps.
NextRace == Next

SpecRace == InitRace /\ [][NextRace]_vars

---------------------------------------------------------------------------
(* The vocabulary of the claims about buildCreateTableQuery, stated without *)
(* the builder's own definitions                                            *)

DecimalDigits == {"0", "1", "2", "3", "4", "5", "6", "7", "8", "9"}

DigitOf(ch) ==
    CASE ch = "0" -> 0 [] ch = "1" -> 1 [] ch = "2" -> 2 [] ch = "3" -> 3
      [] ch = "4" -> 4 [] ch = "5" -> 5 [] ch = "6" -> 6 [] ch = "7" -> 7
      [] ch = "8" -> 8 [] ch = "9" -> 9

\* The digits of a width: the string after an optional sign.
Unsigned(w) == IF Len(w) > 0 /\ w[1] \in {"+", "-"} THEN Tail(w) ELSE w

\* A decimal integer: an optional sign and at least one digit, nothing else.
IsNumeral(w) ==
    /\ Len(Unsigned(w)) > 0
    /\ \A k \in 1..Len(Unsigned(w)) : Unsigned(w)[k] \in DecimalDigits

RECURSIVE Pow10(_)
Pow10(k) == IF k = 0 THEN 1 ELSE 10 * Pow10(k - 1)

RECURSIVE PlaceValues(_, _)
PlaceValues(ds, k) ==
    IF k > Len(ds) THEN 0
    ELSE DigitOf(ds[k]) * Pow10(Len(ds) - k) + PlaceValues(ds, k + 1)

\* The integer a numeral denotes.
NumeralValue(w) ==
    IF Len(w) > 0 /\ w[1] = "-" THEN 0 - PlaceValues(Unsigned(w), 1)
    ELSE PlaceValues(Unsigned(w), 1)

\* The Go string of a width.
RECURSIVE Spell(_)
Spell(w) == IF w = <<>> THEN "" ELSE Head(w) \o Spell(Tail(w))

RecognizedType(t) == t \in {"TEXT", "INTEGER", "BOOLEAN"}

LegalTextWidth(w) == IsNumeral(w) /\ NumeralValue(w) <= 256

\* A column that is valid by itself: a recognized type and, for TEXT, a legal width.
ValidColumn(c) ==
    /\ RecognizedType(c.DataType)
    /\ c.DataType = "TEXT" => LegalTextWidth(c.Width)

NamesOf(cols, n) == {cols[i].Name : i \in 1..n}

DistinctNames(cols) == Cardinality(NamesOf(cols, Len(cols))) = Len(cols)

LegalLength(cols) == 1 <= Len(cols) /\ Len(cols) <= 1600

\* Columns 1..k-1 are valid and pairwise distinct, and column k's name is new:
\* column k is the first that can fail, and not as a duplicate.
FirstCandidate(cols, k) ==
    /\ k \in 1..Len(cols)
    /\ Cardinality(NamesOf(cols, k)) = k
    /\ \A i \in 1..(k - 1) : ValidColumn(cols[i])

\* The messages of the tests.
CountMessage(n) == "invalid number of columns defined in expectedSchema: " \o ToString(n)

DuplicateMessage(name) == "duplicate column name passed in expectedSchema: " \o name

TypeMessage(t) == "unknown data type passed " \o t

WidthMessage(w) == "passed column width " \o Spell(w) \o " is larger then TEXT field allows"

ParseMessage(w) == "strconv.Atoi: parsing \"" \o Spell(w) \o "\": invalid syntax"

Returned == phase = "returned"

---------------------------------------------------------------------------
(* Claims about buildCreateTableQuery (specification SpecCreate) *)

\* C5: buildCreateTableQuery fails with the invalid-column-count error, whose
\* message reports the actual column count, exactly when the schema has 0
\* columns or more than 1600; schemas of 1 and of 1600 columns pass the check,
\* and the check comes before any per-column check.
C5_ColumnCountCheck ==
    Returned =>
        /\ (Len(argSchema) = 0 \/ Len(argSchema) > 1600)
               => outErr = CountMessage(Len(argSchema)) /\ outQuery = ""
        /\ LegalLength(argSchema)
               => outErr \notin {CountMessage(n) : n \in {0, 1, Len(argSchema), 1600, 1601}}

\* C5's case: 1601 columns that all share one name report the count 1601, not
\* the duplicate.
C5_Witness ==
    /\ Returned
    /\ Len(argSchema) = 1601
    /\ NamesOf(argSchema, 1601) = {"test"}
    /\ outErr = "invalid number of columns defined in expectedSchema: 1601"

\* The statement the specification describes: the clauses ' <Name> <type>',
\* one per column in schema order, separated by commas.
TypeText(c) == IF c.DataType = "TEXT" THEN "VARCHAR(" \o Spell(c.Width) \o ")" ELSE c.DataType

RECURSIVE Separated(_, _, _, _)
Separated(parts, lo, hi, sep) ==
    IF lo = hi THEN parts[lo]
    ELSE LET mid == (lo + hi) \div 2
         IN  Separated(parts, lo, mid, sep) \o sep \o Separated(parts, mid + 1, hi, sep)

ExpectedCreate(tableName, cols) ==
    "CREATE TABLE " \o tableName \o "("
        \o Separated([i \in 1..Len(cols) |-> " " \o cols[i].Name \o " " \o TypeText(cols[i])],
                     1, Len(cols), ",")
        \o ");"

WellFormed(cols) ==
    /\ LegalLength(cols)
    /\ DistinctNames(cols)
    /\ \A i \in 1..Len(cols) : ValidColumn(cols[i])

\* C6: for every schema of 1..1600 columns with pairwise distinct names,
\* recognized types and legal TEXT widths, buildCreateTableQuery succeeds and
\* returns 'CREATE TABLE <name>(', the n clauses ' <Name> VARCHAR(<Width>)' /
\* ' <Name> INTEGER' / ' <Name> BOOLEAN' in schema order joined by commas, and
\* ');' (the Width of an INTEGER or BOOLEAN column is ignored).
C6_WellFormedSchemaRenders ==
    (Returned /\ WellFormed(argSchema))
        => outErr = nil /\ outQuery = ExpectedCreate(argTable, argSchema)

\* C6's case: three columns, the INTEGER one with a width that is no number.
C6_Witness ==
    /\ Returned
    /\ argSchema = << Column("a", <<"4">>, "TEXT"), Column("A", <<"x">>, "INTEGER"),
                      Column("b", <<"4">>, "TEXT") >>
    /\ argTable = "t"
    /\ outErr = nil
    /\ outQuery = "CREATE TABLE t( a VARCHAR(4), A INTEGER, b VARCHAR(4));"

\* The first column whose name an earlier column has.
FirstRepeat(cols) ==
    CHOOSE j \in 1..Len(cols) :
        /\ cols[j].Name \in NamesOf(cols, j - 1)
        /\ \A i \in 1..(j - 1) : cols[i].Name \notin NamesOf(cols, i - 1)

\* C7: a schema of legal length in which a name occurs twice (exactly, case
\* included), every column being otherwise valid, fails with the
\* duplicate-column error naming the repeated name, wherever the two
\* occurrences are; names that differ in letter case only are no duplicates.
C7_DuplicateNameRejected ==
    (Returned /\ LegalLength(argSchema)) =>
        /\ (~DistinctNames(argSchema) /\ \A i \in 1..Len(argSchema) : ValidColumn(argSchema[i]))
               => /\ outErr = DuplicateMessage(argSchema[FirstRepeat(argSchema)].Name)
                  /\ outQuery = ""
        /\ DistinctNames(argSchema)
               => outErr \notin {DuplicateMessage(n) : n \in NamesOf(argSchema, Len(argSchema))}

\* C7's case: the two occurrences of "a" are first and last, with "A" between.
C7_Witness ==
    /\ Returned
    /\ argSchema = << Column("a", <<"4">>, "TEXT"), Column("A", <<"4">>, "TEXT"),
                      Column("a", <<"x">>, "INTEGER") >>
    /\ outErr = "duplicate column name passed in expectedSchema: a"

\* C8: a TEXT column's Width is parsed as an integer: a Width that is no number
\* fails with the numeric-parse error, a width above 256 with the
\* width-exceeded error reporting it, and a width of exactly 256 succeeds as
\* VARCHAR(256); an INTEGER or BOOLEAN column's Width is not checked.
C8_TextWidthChecked ==
    (Returned /\ LegalLength(argSchema)) =>
        /\ \A k \in 1..Len(argSchema) :
               (FirstCandidate(argSchema, k) /\ argSchema[k].DataType = "TEXT") =>
                   LET w == argSchema[k].Width
                   IN  /\ ~IsNumeral(w) => outErr = ParseMessage(w) /\ outQuery = ""
                       /\ (IsNumeral(w) /\ NumeralValue(w) > 256)
                              => outErr = WidthMessage(w) /\ outQuery = ""
        /\ (Len(argSchema) = 1 /\ argSchema[1].DataType = "TEXT"
                /\ IsNumeral(argSchema[1].Width) /\ NumeralValue(argSchema[1].Width) = 256)
               => /\ outErr = nil
                  /\ outQuery = "CREATE TABLE " \o argTable \o "( " \o argSchema[1].Name
                                    \o " VARCHAR(" \o Spell(argSchema[1].Width) \o "));"
        /\ (Len(argSchema) = 1 /\ argSchema[1].DataType \in {"INTEGER", "BOOLEAN"})
               => outErr = nil

\* C8's case: the boundary width 256.
C8_Witness ==
    /\ Returned
    /\ argSchema = << Column("a", <<"2", "5", "6">>, "TEXT") >>
    /\ argTable = "t"
    /\ outErr = nil
    /\ outQuery = "CREATE TABLE t( a VARCHAR(256));"

\* C9: buildCreateTableQuery accepts exactly the data types TEXT, INTEGER and
\* BOOLEAN (case-sensitive); a schema of legal length whose first invalid column
\* has any other DataType fails with the unsupported-type error naming it.
C9_UnknownTypeRejected ==
    (Returned /\ LegalLength(argSchema)) =>
        /\ \A k \in 1..Len(argSchema) :
               (FirstCandidate(argSchema, k) /\ ~RecognizedType(argSchema[k].DataType))
                   => outErr = TypeMessage(argSchema[k].DataType) /\ outQuery = ""
        /\ outErr = nil => \A k \in 1..Len(argSchema) : RecognizedType(argSchema[k].DataType)

\* C9's case: the lower-case "text" is no data type.
C9_Witness ==
    /\ Returned
    /\ argSchema = << Column("a", <<"2">>, "text") >>
    /\ outErr = "unknown data type passed text"

---------------------------------------------------------------------------
(* Claims about buildCopyFromS3Query (specification SpecCopy) *)

\* The FIXEDWIDTH list the specification describes: one 'Name:Width' per
\* column of any data type, in schema order, separated by ', '.
ExpectedPairs(cols) ==
    IF Len(cols) = 0 THEN ""
    ELSE Separated([i \in 1..Len(cols) |-> cols[i].Name \o ":" \o Spell(cols[i].Width)],
                   1, Len(cols), ", ")

ExpectedCopy(env, bucket, cols, tableName, sourceKey) ==
    "COPY " \o tableName \o " FROM 's3://" \o bucket \o "/" \o sourceKey \o "' "
        \o "IAM_ROLE 'arn:aws:iam::653026974230:role/data-loader-redshift-copy-"
        \o env \o "-us-west-2' "
        \o "FIXEDWIDTH '" \o ExpectedPairs(cols) \o "';"

\* C10: for every schema (the empty one too, which gives an empty FIXEDWIDTH
\* list), table name and source key, buildCopyFromS3Query returns exactly
\* "COPY <tableName> FROM 's3://<DataBucket>/<sourceKey>' IAM_ROLE
\* 'arn:aws:iam::653026974230:role/data-loader-redshift-copy-<Env>-us-west-2'
\* FIXEDWIDTH '<pairs>';" with one 'Name:Width' pair per column of any data
\* type, in schema order, joined by ', ', the table name as given.
C10_CopyStatementRendered ==
    Returned =>
        /\ outQuery = ExpectedCopy(d.Env, d.DataBucket, argSchema, argTable, argTarget)
        /\ outErr = nil
        /\ Len(argSchema) = 0 =>
               outQuery = "COPY " \o argTable \o " FROM 's3://" \o d.DataBucket \o "/"
                              \o argTarget \o "' IAM_ROLE 'arn:aws:iam::653026974230:role/"
                              \o "data-loader-redshift-copy-" \o d.Env \o "-us-west-2'"
                              \o " FIXEDWIDTH '';"

\* C10's case: the happy path of the tests, with its TEXT, BOOLEAN and INTEGER columns.
C10_Witness ==
    /\ Returned
    /\ d = TestConfig
    /\ argSchema = HappyPathSchema
    /\ argTable = "testtable"
    /\ argTarget = "testtarget"
    /\ outQuery = "COPY testtable FROM 's3://testDB/testtarget' "
                      \o "IAM_ROLE 'arn:aws:iam::653026974230:role/data-loader-redshift-copy--us-west-2' "
                      \o "FIXEDWIDTH 'testCol1:4, testCol2:42, testCol3:8, testCol4:4';"

---------------------------------------------------------------------------
(* Claims about LoadDataFileToRedshift (specification Spec) *)

\* The names of the steps a load has performed, in order.
StepNames(r) == [k \in 1..Len(r.steps) |-> r.steps[k].step]

CountOf(r, name) == Cardinality({k \in 1..Len(r.steps) : r.steps[k].step = name})

IsPrefix(p, q) == Len(p) <= Len(q) /\ \A k \in 1..Len(p) : p[k] = q[k]

\* The two orders of a load: with the table created, and without.
StepOrders ==
    { <<"fetch", "parse", "exists", "build", "create", "copy">>,
      <<"fetch", "parse", "exists", "copy">> }

\* The load of the current record has returned to handle.
LoadEnded(r) == r.pc \in {"loop", "done"} /\ r.next > 0

\* The existence check returned (exists, nil).
CheckAnswered(r, exists) ==
    /\ \E k \in 1..Len(r.steps) : r.steps[k].step = "exists" /\ r.steps[k].err = nil
    /\ r.redShiftTableExists = exists

\* Step name was performed and returned no error.
Succeeded(r, name) ==
    \E k \in 1..Len(r.steps) : r.steps[k].step = name /\ r.steps[k].err = nil

\* C1: in every run of LoadDataFileToRedshift the steps occur in the fixed
\* order schema fetch, schema parse, table-existence query, CREATE TABLE (built
\* and executed, only if the table is absent), COPY; no step starts before the
\* previous one has returned successfully, and each occurs at most once.
C1_FixedStepOrder ==
    \A i \in DOMAIN run :
        LET r == run[i]
        IN  /\ \E order \in StepOrders : IsPrefix(StepNames(r), order)
            /\ \A k \in 1..(Len(r.steps) - 1) : r.steps[k].err = nil
            /\ \A name \in {"fetch", "parse", "exists", "build", "create", "copy"} :
                   CountOf(r, name) <= 1
            /\ (CountOf(r, "build") > 0 \/ CountOf(r, "create") > 0)
                   => CheckAnswered(r, FALSE)

\* C1's case: a load that went through every step, the CREATE included.
C1_Witness ==
    \E i \in DOMAIN run :
        /\ LoadEnded(run[i])
        /\ StepNames(run[i]) = <<"fetch", "parse", "exists", "build", "create", "copy">>
        /\ run[i].err = nil

\* C2 as stated: when the existence check returns true, no CREATE TABLE is
\* built or executed and COPY is executed exactly once; when it returns false,
\* CREATE TABLE is executed exactly once and, if it succeeds, COPY is executed
\* exactly once after it.
C2_CreateExactlyOnceWhenAbsent ==
    \A i \in DOMAIN run :
        LET r == run[i]
        IN  LoadEnded(r) =>
                /\ CheckAnswered(r, TRUE)
                       => CountOf(r, "build") = 0 /\ CountOf(r, "create") = 0
                              /\ CountOf(r, "copy") = 1
                /\ CheckAnswered(r, FALSE)
                       => /\ CountOf(r, "create") = 1
                          /\ Succeeded(r, "create") => CountOf(r, "copy") = 1

\* C2 as amended: when the existence check returns true, no CREATE TABLE is
\* built or executed and COPY is executed exactly once; when it returns false
\* (and no error), CREATE TABLE is built exactly once, and executed exactly once
\* if the schema passes the builder's validation and not at all otherwise; if
\* the CREATE is executed and succeeds, COPY is executed exactly once, after
\* it, and otherwise COPY is not executed.
C2_CreateOnceIfSchemaValid ==
    \A i \in DOMAIN run :
        LET r == run[i]
        IN  LoadEnded(r) =>
                /\ CheckAnswered(r, TRUE)
                       => CountOf(r, "build") = 0 /\ CountOf(r, "create") = 0
                              /\ CountOf(r, "copy") = 1
                /\ CheckAnswered(r, FALSE)
                       => /\ CountOf(r, "build") = 1
                          /\ CountOf(r, "create") = (IF WellFormed(r.schema) THEN 1 ELSE 0)
                          /\ CountOf(r, "copy") = (IF Succeeded(r, "create") THEN 1 ELSE 0)
                          /\ Succeeded(r, "create")
                                 => \E k \in 1..(Len(r.steps) - 1) :
                                        r.steps[k].step = "create" /\ r.steps[k + 1].step = "copy"

\* C2's case: the table is absent and the schema does not pass validation, so
\* the CREATE is built and not executed.
C2_Witness ==
    \E i \in DOMAIN run :
        /\ LoadEnded(run[i])
        /\ CheckAnswered(run[i], FALSE)
        /\ ~WellFormed(run[i].schema)
        /\ StepNames(run[i]) = <<"fetch", "parse", "exists", "build">>

\* C3: if a step of LoadDataFileToRedshift fails (fetch, parse, existence
\* query, DDL build, DDL execution, COPY execution) no later step is performed,
\* COPY in particular, the step is not tried again, and the error returned to
\* the caller is exactly the failing step's error.
C3_FirstErrorReturned ==
    \A i \in DOMAIN run :
        LET r == run[i]
            n == Len(r.steps)
        IN  /\ \A k \in 1..n : r.steps[k].err # nil => k = n
            /\ \A k \in 1..n : r.steps[k].err # nil => CountOf(r, r.steps[k].step) = 1
            /\ (\E k \in 1..n : r.steps[k].err # nil) => CountOf(r, "copy") = 0 \/ r.steps[n].step = "copy"
            /\ LoadEnded(r) =>
                   /\ n > 0
                   /\ r.err = r.steps[n].err
                   /\ r.err = nil => r.steps[n].step = "copy"

\* C3's case: the CREATE is executed and fails; its error is returned and no
\* COPY is executed.
C3_Witness ==
    \E i \in DOMAIN run :
        /\ LoadEnded(run[i])
        /\ StepNames(run[i]) = <<"fetch", "parse", "exists", "build", "create">>
        /\ run[i].steps[5].err = "driver: bad connection"
        /\ run[i].err = "driver: bad connection"

\* C4: whenever a COPY statement is built and executed, the schema it is built
\* from has passed the validator's checks (1..1600 columns, pairwise distinct
\* names, recognized data types, TEXT widths numeric and at most 256), whether
\* the table existed or not.
C4_CopyOnlyValidatedSchema ==
    \A i \in DOMAIN run :
        CountOf(run[i], "copy") > 0 => WellFormed(run[i].schema)

---------------------------------------------------------------------------
(* The claims about marshalTableSchema *)

\* A table of three columns: every row of it, the first included, has three
\* fields.
ThreeColumns(table) == \A i \in 1..Len(table) : Len(table[i]) = 3

\* C11: for every well-formed three-column CSV body with a header row and k data
\* rows, marshalTableSchema returns exactly k entries and no error: the header
\* row is discarded, data row i becomes entry i with Name, Width and DataType
\* the row's fields 1, 2 and 3 unchanged, in the order of the rows, whatever the
\* number of rows, repeated names, types and widths; a body with the header
\* only yields an empty schema.  The body of the tests yields their
\* expectedSchema.
C11_WellFormedBodyParsed ==
    phase # "input" =>
        /\ \A w \in WrittenTables :
              (w.stream = argRaw /\ ThreeColumns(w.table)) =>
                  /\ phase = "returned"
                  /\ outErr = nil
                  /\ Len(outSchema) = Len(w.table) - 1
                  /\ \A i \in 1..(Len(w.table) - 1) :
                        /\ outSchema[i].Name = ToStr(w.table[i + 1][1])
                        /\ outSchema[i].Width = w.table[i + 1][2]
                        /\ outSchema[i].DataType = ToStr(w.table[i + 1][3])
        /\ argRaw = HappyPathBody =>
              phase = "returned" /\ outErr = nil /\ outSchema = HappyPathColumns

\* A body of a header and two rows, the first with a quoted name that holds a
\* comma and a quote, an empty width and a line break as its type, has been
\* parsed into two entries in that order.
C11_Witness ==
    /\ phase = "returned"
    /\ argRaw = <<"n", ",", "w", ",", "t", "\n",
                  "\"", "a", ",", "\"", "\"", "\"", ",", ",", "\"", "\n", "\"", "\n",
                  "a", ",", "4", ",", "T", "\n">>
    /\ Len(outSchema) = 2
    /\ outSchema[1] = Column("a,\"", <<>>, "\n")
    /\ outSchema[2] = Column("a", <<"4">>, "T")

\* A stream whose quotes are out of place: a quote inside a first field that
\* does not begin with one, or a first field that begins with a quote and never
\* ends.
HasQuote(stream, lo) == \E k \in lo..Len(stream) : stream[k] = "\""

BareQuoted(stream) ==
    /\ Len(stream) > 0
    /\ stream[1] \notin {"\"", "\n", ","}
    /\ \A k \in 1..Len(stream) : stream[k] \notin {",", "\n"}
    /\ HasQuote(stream, 2)

OpenQuoted(stream) ==
    /\ Len(stream) > 0
    /\ stream[1] = "\""
    /\ ~HasQuote(stream, 2)

\* A stream that is no three-column table: its quotes are out of place, or it
\* is a table written out of which some row has another number of fields than
\* three.
NotThreeColumnTable(stream) ==
    \/ BareQuoted(stream)
    \/ OpenQuoted(stream)
    \/ \E w \in WrittenTables : w.stream = stream /\ ~ThreeColumns(w.table)

\* C12: for every stream that is not parseable as the three-column table
\* (malformed quote structure, rows of different numbers of fields, rows that
\* do not carry the three fields), marshalTableSchema returns a format error and
\* no schema; it returns no partly built schema and does not end abnormally.
C12_MalformedBodyRejected ==
    (phase # "input" /\ NotThreeColumnTable(argRaw)) =>
        /\ phase = "returned"
        /\ outErr # nil
        /\ outSchema = <<>>

---------------------------------------------------------------------------
(* The claims about the names the load uses *)

\* The longest beginning of key that holds no "_": the whole key, or the part
\* before its first "_".
BeforeFirstSeparator(key) ==
    LET n == CHOOSE n \in 0..Len(key) :
                 /\ \A k \in 1..n : key[k] # "_"
                 /\ n = Len(key) \/ key[n + 1] = "_"
    IN  ToStr(SubSeq(key, 1, n))

\* What step st of the load r must have named, for the target table name.
NamedAsTarget(r, st, name) ==
    CASE st.step = "fetch"  -> st.bucket = d.SchemaBucket /\ st.arg = name \o ".csv"
      [] st.step = "exists" -> st.arg = name
      [] st.step = "build"  -> st.err = nil => st.arg = ExpectedCreate(name, r.schema)
      [] st.step = "create" -> st.arg = ExpectedCreate(name, r.schema)
      [] st.step = "copy"   -> st.arg = ExpectedCopy(d.Env, d.DataBucket, r.schema, name,
                                                     ToStr(r.fileName))
      [] OTHER -> TRUE

\* C13: for every file key, the target table name of LoadDataFileToRedshift is
\* the part of the key before its first '_' (the whole key when it holds none);
\* that name is the one of the schema object '<name>.csv' fetched from the
\* schema bucket, of the existence query's parameter, of the CREATE TABLE and
\* of the COPY, and the COPY's source location holds the whole file key.
C13_TargetNameFromKey ==
    \A i \in DOMAIN run :
        \A k \in 1..Len(run[i].steps) :
            NamedAsTarget(run[i], run[i].steps[k], BeforeFirstSeparator(run[i].fileName))

\* A load of the key t_1_x has fetched t.csv, created table t and copied
\* into t from the object t_1_x.
C13_Witness ==
    \E i \in DOMAIN run :
        LET r == run[i]
        IN  /\ r.fileName = <<"t", "_", "1", "_", "x">>
            /\ LoadEnded(r)
            /\ Succeeded(r, "create")
            /\ \E k \in 1..Len(r.steps) :
                  /\ r.steps[k].step = "copy"
                  /\ r.steps[k].arg =
                        "COPY t FROM 's3://data/t_1_x' IAM_ROLE "
                            \o "'arn:aws:iam::653026974230:role/data-loader-redshift-copy-dev-us-west-2' "
                            \o "FIXEDWIDTH 'a:4';"
            /\ r.steps[1] = Step("fetch", "schemas", "t.csv", nil)

---------------------------------------------------------------------------
(* The claims about the order of the builder's checks and about its failures *)

\* The defects of column i of cols: its name is the name of an earlier column;
\* its type is unknown; it is a TEXT column whose width is no legal one.
RepeatsName(cols, i) == \E j \in 1..(i - 1) : cols[j].Name = cols[i].Name

UnknownType(cols, i) == ~RecognizedType(cols[i].DataType)

BadTextWidth(cols, i) == cols[i].DataType = "TEXT" /\ ~LegalTextWidth(cols[i].Width)

Defective(cols, i) == RepeatsName(cols, i) \/ UnknownType(cols, i) \/ BadTextWidth(cols, i)

\* The error of a defective column by the order of the checks: duplicate name,
\* then data type, then the width of a TEXT column (not a number, then too large).
DefectMessage(cols, i) ==
    IF RepeatsName(cols, i) THEN DuplicateMessage(cols[i].Name)
    ELSE IF UnknownType(cols, i) THEN TypeMessage(cols[i].DataType)
    ELSE IF ~IsNumeral(cols[i].Width) THEN ParseMessage(cols[i].Width)
    ELSE WidthMessage(cols[i].Width)

\* C14: validation is first-failure-wins: of a schema of legal length with a
\* defective column, the error returned is the one of the earliest defective
\* column (never a later column's), and within that column the duplicate-name
\* check comes before the data-type check, which comes before the TEXT width
\* checks; a column that is both a duplicate and of unknown type reports the
\* duplicate.
C14_FirstFailureWins ==
    (Returned /\ LegalLength(argSchema)) =>
        \A i \in 1..Len(argSchema) :
            (Defective(argSchema, i) /\ \A j \in 1..(i - 1) : ~Defective(argSchema, j)) =>
                /\ outErr = DefectMessage(argSchema, i)
                /\ (RepeatsName(argSchema, i) /\ UnknownType(argSchema, i))
                       => outErr = DuplicateMessage(argSchema[i].Name)

\* The second column is both a duplicate and of unknown type, and the third is
\* a TEXT column whose width is no number: the duplicate is what is reported.
C14_Witness ==
    /\ Returned
    /\ argSchema = << Column("a", <<"4">>, "TEXT"), Column("a", <<"4">>, "BAD_TYPE"),
                      Column("b", <<"x">>, "TEXT") >>
    /\ outErr = "duplicate column name passed in expectedSchema: a"

\* The last step of the load r is a build of the CREATE TABLE statement that failed.
BuildFailed(r) ==
    /\ Len(r.steps) > 0
    /\ r.steps[Len(r.steps)].step = "build"
    /\ r.steps[Len(r.steps)].err # nil

\* C15: whenever buildCreateTableQuery fails, the statement it returns is the
\* empty string, and createTable returns that validation error to the load
\* without issuing a statement to the database: no CREATE is executed, the
\* warehouse is as it was, and the load returns the error; building the
\* statement is no access to the database.
C15_FailedBuildIssuesNothing ==
    [][ \A i \in DOMAIN run :
            (run[i].pc = "create" /\ BuildFailed(run'[i])) =>
                /\ run'[i].steps[Len(run'[i].steps)].arg = ""
                /\ CountOf(run'[i], "create") = 0
                /\ CountOf(run'[i], "copy") = 0
                /\ Len(run'[i].steps) = Len(run[i].steps) + 1
                /\ tables' = tables
                /\ LoadEnded(run'[i])
                /\ run'[i].err = run'[i].steps[Len(run'[i].steps)].err ]_vars

\* A load whose schema holds the column a twice found the table absent, failed
\* to build the statement and returned the duplicate error, the warehouse
\* still empty.
C15_Witness ==
    \E i \in DOMAIN run :
        /\ BuildFailed(run[i])
        /\ LoadEnded(run[i])
        /\ run[i].steps[Len(run[i].steps)] =
               Step("build", "", "", "duplicate column name passed in expectedSchema: a")
        /\ run[i].err = "duplicate column name passed in expectedSchema: a"
        /\ tables = {}

---------------------------------------------------------------------------
(* The claim about two loads at once *)

\* The load r executed a CREATE TABLE, which the warehouse answered with err.
CreateAnswered(r, err) ==
    \E k \in 1..Len(r.steps) : r.steps[k].step = "create" /\ r.steps[k].err = err

\* C16: the existence check and the create that follows are not atomic and the
\* core takes no lock: of two concurrent invocations of LoadDataFileToRedshift
\* for one table that does not exist yet, both can observe the table as absent
\* and both execute CREATE TABLE for it (the state of C16_Witness is reached);
\* the warehouse accepts at most one of the two, and an invocation whose CREATE
\* is rejected returns that error and does not execute its COPY.
C16_RejectedCreateEndsLoad ==
    /\ \A i \in DOMAIN run :
          \A k \in 1..Len(run[i].steps) :
              (run[i].steps[k].step = "create" /\ run[i].steps[k].err # nil) =>
                  /\ k = Len(run[i].steps)
                  /\ CountOf(run[i], "copy") = 0
                  /\ LoadEnded(run[i])
                  /\ run[i].err = run[i].steps[k].err
    /\ \A i, j \in DOMAIN run :
          (i # j /\ CreateAnswered(run[i], nil) /\ CountOf(run[j], "create") = 1) =>
              /\ CheckAnswered(run[i], FALSE) /\ CheckAnswered(run[j], FALSE)
              /\ ~CreateAnswered(run[j], nil)

\* Both invocations found table t absent and both executed CREATE TABLE t: the
\* first was accepted and went on to its COPY, the second was rejected, returned
\* that error and executed no COPY.
C16_Witness ==
    /\ DOMAIN run = {1, 2}
    /\ run[1].targetName = <<"t">> /\ run[2].targetName = <<"t">>
    /\ CheckAnswered(run[1], FALSE) /\ CheckAnswered(run[2], FALSE)
    /\ CreateAnswered(run[1], nil)
    /\ Succeeded(run[1], "copy")
    /\ CreateAnswered(run[2], "pq: relation \"t\" already exists")
    /\ LoadEnded(run[2])
    /\ run[2].err = "pq: relation \"t\" already exists"
    /\ CountOf(run[2], "copy") = 0
    /\ run[2].response = "error"

---------------------------------------------------------------------------
(* The claim about the handler's loop *)

\* C17: for an event with several records, handle calls LoadDataFileToRedshift
\* once per record in event order and goes on with the remaining records after
\* a record's load returned an error; the result is decided by the last record
\* alone: handle returns the last record's error if it failed and Success
\* otherwise, so an earlier record's failure is not reported when the last
\* record succeeds; an event with no records returns Success without any load.
C17_LastRecordDecides ==
    \A i \in DOMAIN run :
        LET r == run[i]
            n == Len(r.event)
        IN  /\ Len(r.loads) = r.next
            /\ r.next <= n
            /\ \A k \in 1..Len(r.loads) : r.loads[k].fileName = r.event[k]
            /\ r.response # "none" =>
                  /\ r.pc = "done"
                  /\ Len(r.loads) = n
                  /\ r.response = IF n > 0 /\ r.loads[n].failed THEN "error" ELSE "Success"
                  /\ r.response = "error" =>
                         /\ r.err # nil
                         /\ r.err = r.steps[Len(r.steps)].err
                  /\ n = 0 => r.steps = <<>>

\* handle has returned Success for an event of two records of which the first
\* failed and the second was copied.
C17_Witness ==
    \E i \in DOMAIN run :
        LET r == run[i]
        IN  /\ r.pc = "done"
            /\ Len(r.event) = 2
            /\ Len(r.loads) = 2
            /\ r.loads[1].failed
            /\ ~r.loads[2].failed
            /\ Succeeded(r, "copy")
            /\ r.response = "Success"

============================================================================
